---- MODULE Spec2Model ----
(***************************************************************************)
(* Reto Pinion: three independent Arduino/ESP32 sketches.                  *)
(*   - Semaforos: fixed-phase traffic lights of Av. Patria / Av. Mariano   *)
(*     Otero (src/Semaforos.ino lines 1-286, the same statements as        *)
(*     src/unnamed/part_000).                                              *)
(*   - Smart House: green button, red button and rain sensor driving three *)
(*     servos and an LCD (src/Smart_house.ino).                            *)
(*   - Transporte publico: joystick-driven position broadcast, in two      *)
(*     variants (src/Semaforos.ino lines 287-751, src/unnamed/part_001).   *)
(* Each sketch has its own variables and its own specification; a sketch's *)
(* specification leaves the other sketches' variables unchanged.  The      *)
(* velocity computation of the joystick sketch has a specification of its  *)
(* own, which takes one tick for every sample of the ADC range.            *)
(***************************************************************************)
EXTENDS Integers, Sequences, FiniteSets, TLC

VARIABLES
  \* ---- Semaforos ----
  modo,      \* pin -> "INPUT" | "OUTPUT"      (pinMode)
  nivel,     \* pin -> BOOLEAN                 (level last written, HIGH = TRUE)
  pcSem,     \* [fn, i]: the next statement of setup() or loop() to run
  ahora,     \* milliseconds spent in delay() since boot
  vueltas,   \* completed iterations of loop()
  hist,      \* one record per delay() started: lamps lit, start time, length
  \* ---- Smart House ----
  pcCasa,                  \* "setup" before setup() has run, "loop" after
  ventana_lluvia_abierta,  \* bool ventana_lluvia_abierta
  tercer_servo_abierto,    \* bool tercer_servo_abierto
  myServo,                 \* last angle written to servo 1: << >> or <<angle>>
  myServo_1,               \* last angle written to servo 2 (rain window)
  myServo_2,               \* last angle written to servo 3
  lcd,                     \* row -> text last printed from column 0 of the row
  buttonState,             \* loop()'s last reading of the green button
  buttonState_red,         \* loop()'s last reading of the red button
  valorHumedad,            \* loop()'s last reading of the rain sensor
  duracion,                \* ms spent in delay() by the last setup()/loop() call
  marcas,                  \* what the rain sensor has shown since the last changes
  desdeToggle,             \* ms from the last toggle of the third servo to the
                           \* return of the last loop() call, capped; -1: no toggle yet
  \* ---- Transporte publico (joystick) ----
  variante,     \* 1: src/Semaforos.ino (second half), 2: src/unnamed/part_001
  posX, posY,   \* int posX, posY
  oldX, oldY,   \* int oldX, oldY
  xVal, yVal,   \* the joystick samples of the last tick
  velX, velY,   \* the velocities of the last tick
  bufferEnvio,  \* char bufferEnvio[64], as text
  espera,       \* millis() - lastUpdate when loop() last returned, capped
  ultimaVuelta, \* what the last loop() call did: service calls, tick,
                \* broadcast, ms spent in delay()
  ticks,        \* ticks taken since the initial state
  enviados,     \* calls of webSocket.broadcastTXT so far
  rachas,       \* maximal runs of consecutive ticks ending at one position, so far
  recibido      \* client -> connected or not, and the last position it received

semVars == <<modo, nivel, pcSem, ahora, vueltas, hist>>

casaVars == <<pcCasa, ventana_lluvia_abierta, tercer_servo_abierto, myServo,
              myServo_1, myServo_2, lcd, buttonState, buttonState_red,
              valorHumedad, duracion, marcas, desdeToggle>>

joyVars == <<variante, posX, posY, oldX, oldY, xVal, yVal, velX, velY, bufferEnvio,
             espera, ultimaVuelta, ticks, enviados, rachas, recibido>>

vars == <<semVars, casaVars, joyVars>>

(***************************************************************************)
(* Bounds of the model.                                                    *)
(***************************************************************************)
\* loop() iterations of the traffic lights that the model follows
MaxVueltas == 3
\* rain samples are taken this far on each side of the two thresholds
MargenMuestra == 2
\* millis() - lastUpdate is followed up to this many milliseconds
MaxEspera == 60
\* joystick ticks that the model follows from each initial state
MaxTicks == 2
\* initial positions of the joystick sketch lie this close to a border
Cerca == 1
\* milliseconds from one loop() call of the joystick sketch to the next
Paso == 17
\* WebSocket clients that may connect
NumClientes == 2
\* ticks that the model follows with the joystick held fully deflected
MaxRecorrido == 50
\* the time since the last toggle of the third servo is followed this far
MaxDesde == 320
\* the two samples of a velocity check are at most this far apart
MaxSalto == 3
\* samples beyond the ADC range are taken up to this far from it
Fuera == 700
\* consecutive calls of todosRojo() that the model follows
MaxLlamadas == 2
\* milliseconds by which time advances inside a delay()
Cuanto == 500

(***************************************************************************)
(*                          SEMAFOROS                                      *)
(***************************************************************************)
HIGH == TRUE
LOW == FALSE

Rojos == <<"s1_rojo", "s2_rojo", "s3_rojo", "s4_rojo">>
Amarillos == <<"s1_amarillo", "s2_amarillo", "s3_amarillo", "s4_amarillo">>
Verdes == <<"s1_verde", "s2_verde", "s3_verde", "s4_verde">>

Semaforo == 1..4
Patria == {1, 2}
MarianoOtero == {3, 4}

Pines == {Rojos[s] : s \in Semaforo} \cup {Amarillos[s] : s \in Semaforo}
           \cup {Verdes[s] : s \in Semaforo}

tiempo_amarillo == 2000
tiempo_seguridad == 1000
\* Faulty variant: the green time set to the yellow time.
tiempo_verde_corto == tiempo_amarillo
tiempo_verde == 5000

\* The three kinds of statement of the sketch.
PinModeOutput(p) == [op |-> "pinMode", pin |-> p, val |-> FALSE, ms |-> 0]
Write(p, v) == [op |-> "digitalWrite", pin |-> p, val |-> v, ms |-> 0]
Delay(t) == [op |-> "delay", pin |-> "", val |-> FALSE, ms |-> t]

\* Faulty variant: todosRojo() switches the red of light 3 off instead of on.
todosRojo_sinRojo3 ==
  << Write("s1_verde", LOW), Write("s1_amarillo", LOW), Write("s1_rojo", HIGH),
     Write("s2_verde", LOW), Write("s2_amarillo", LOW), Write("s2_rojo", HIGH),
     Write("s3_verde", LOW), Write("s3_amarillo", LOW), Write("s3_rojo", LOW),
     Write("s4_verde", LOW), Write("s4_amarillo", LOW), Write("s4_rojo", HIGH) >>

\* Faulty variant: todosRojo() leaves the green of light 4 as it is.
todosRojo_sinVerde4 ==
  << Write("s1_verde", LOW), Write("s1_amarillo", LOW), Write("s1_rojo", HIGH),
     Write("s2_verde", LOW), Write("s2_amarillo", LOW), Write("s2_rojo", HIGH),
     Write("s3_verde", LOW), Write("s3_amarillo", LOW), Write("s3_rojo", HIGH),
     Write("s4_amarillo", LOW), Write("s4_rojo", HIGH) >>

\* void todosRojo(): per light, verde LOW, amarillo LOW, rojo HIGH.
todosRojo ==
  << Write("s1_verde", LOW), Write("s1_amarillo", LOW), Write("s1_rojo", HIGH),
     Write("s2_verde", LOW), Write("s2_amarillo", LOW), Write("s2_rojo", HIGH),
     Write("s3_verde", LOW), Write("s3_amarillo", LOW), Write("s3_rojo", HIGH),
     Write("s4_verde", LOW), Write("s4_amarillo", LOW), Write("s4_rojo", HIGH) >>

\* void setup(): twelve pinMode(.., OUTPUT), todosRojo(), delay(2000).
SemSetup ==
  << PinModeOutput("s1_rojo"), PinModeOutput("s1_amarillo"), PinModeOutput("s1_verde"),
     PinModeOutput("s2_rojo"), PinModeOutput("s2_amarillo"), PinModeOutput("s2_verde"),
     PinModeOutput("s3_rojo"), PinModeOutput("s3_amarillo"), PinModeOutput("s3_verde"),
     PinModeOutput("s4_rojo"), PinModeOutput("s4_amarillo"), PinModeOutput("s4_verde") >>
  \o todosRojo
  \o << Delay(2000) >>

\* loop(), step 1-2: Av. Patria to green, Av. Mariano Otero kept red.
PatriaVerde ==
  << Write("s1_rojo", LOW), Write("s1_verde", HIGH),
     Write("s2_rojo", LOW), Write("s2_verde", HIGH),
     Write("s3_rojo", HIGH), Write("s4_rojo", HIGH),
     Delay(tiempo_verde) >>

\* loop(), step 3: Av. Patria green -> yellow.
PatriaAmarillo ==
  << Write("s1_verde", LOW), Write("s1_amarillo", HIGH),
     Write("s2_verde", LOW), Write("s2_amarillo", HIGH),
     Delay(tiempo_amarillo) >>

\* loop(), step 4: Av. Patria yellow -> red, safety time.
PatriaRojo ==
  << Write("s1_amarillo", LOW), Write("s1_rojo", HIGH),
     Write("s2_amarillo", LOW), Write("s2_rojo", HIGH),
     Delay(tiempo_seguridad) >>

\* loop(), step 5: Av. Mariano Otero to green.
OteroVerde ==
  << Write("s3_rojo", LOW), Write("s3_verde", HIGH),
     Write("s4_rojo", LOW), Write("s4_verde", HIGH),
     Delay(tiempo_verde) >>

\* loop(), step 6: Av. Mariano Otero green -> yellow.
OteroAmarillo ==
  << Write("s3_verde", LOW), Write("s3_amarillo", HIGH),
     Write("s4_verde", LOW), Write("s4_amarillo", HIGH),
     Delay(tiempo_amarillo) >>

\* loop(), step 7: Av. Mariano Otero yellow -> red, safety time.
OteroRojo ==
  << Write("s3_amarillo", LOW), Write("s3_rojo", HIGH),
     Write("s4_amarillo", LOW), Write("s4_rojo", HIGH),
     Delay(tiempo_seguridad) >>

\* Faulty variant: the yellow step forgets to switch the green of light 1 off.
SemLoop_sinApagarVerde ==
  PatriaVerde
  \o << Write("s1_amarillo", HIGH), Write("s2_verde", LOW), Write("s2_amarillo", HIGH),
        Delay(tiempo_amarillo) >>
  \o PatriaRojo \o OteroVerde \o OteroAmarillo \o OteroRojo

\* Faulty variant: the green step forgets to switch the red of light 2 off.
SemLoop_sinApagarRojo2 ==
  << Write("s1_rojo", LOW), Write("s1_verde", HIGH), Write("s2_verde", HIGH),
     Write("s3_rojo", HIGH), Write("s4_rojo", HIGH), Delay(tiempo_verde) >>
  \o PatriaAmarillo \o PatriaRojo \o OteroVerde \o OteroAmarillo \o OteroRojo

\* Faulty variant: the two avenues' yellow steps are exchanged.
SemLoop_amarillosCambiados ==
  PatriaVerde \o OteroAmarillo \o PatriaRojo \o OteroVerde \o PatriaAmarillo \o OteroRojo

\* Faulty variant: Av. Patria goes from green to red without the yellow step.
SemLoop_sinAmarillo ==
  PatriaVerde
  \o << Write("s1_verde", LOW), Write("s1_rojo", HIGH),
        Write("s2_verde", LOW), Write("s2_rojo", HIGH), Delay(tiempo_seguridad) >>
  \o OteroVerde \o OteroAmarillo \o OteroRojo

\* void loop(): the statements of one iteration, in order.
SemLoop ==
  PatriaVerde \o PatriaAmarillo \o PatriaRojo \o OteroVerde \o OteroAmarillo \o OteroRojo

SemPrograma(fn) == IF fn = "setup" THEN SemSetup ELSE SemLoop

\* The statement the program counter points to.
SemInstr == SemPrograma(pcSem.fn)[pcSem.i]

\* Faulty variant: loop() is not called again after it returns.
SemSiguiente_sinRepetir ==
  IF pcSem.i < Len(SemPrograma(pcSem.fn))
    THEN [fn |-> pcSem.fn, i |-> pcSem.i + 1]
    ELSE IF pcSem.fn = "setup" THEN [fn |-> "loop", i |-> 1] ELSE pcSem

\* The Arduino core calls setup() once and then loop() again and again.
SemSiguiente ==
  IF pcSem.i < Len(SemPrograma(pcSem.fn))
    THEN [fn |-> pcSem.fn, i |-> pcSem.i + 1]
    ELSE [fn |-> "loop", i |-> 1]

SemFinDeVuelta == pcSem.fn = "loop" /\ pcSem.i = Len(SemLoop)

\* A lamp is lit when its pin is an output driven HIGH.
Encendido(p) == modo[p] = "OUTPUT" /\ nivel[p] = HIGH

Luces == {p \in Pines : Encendido(p)}

\* State at reset: every pin is an input and every output latch is LOW.
InitSem ==
  /\ modo = [p \in Pines |-> "INPUT"]
  /\ nivel = [p \in Pines |-> LOW]
  /\ pcSem = [fn |-> "setup", i |-> 1]
  /\ ahora = 0
  /\ vueltas = 0
  /\ hist = << >>

\* pinMode(pin, OUTPUT).
PasoPinMode ==
  /\ SemInstr.op = "pinMode"
  /\ modo' = [modo EXCEPT ![SemInstr.pin] = "OUTPUT"]
  /\ pcSem' = SemSiguiente
  /\ UNCHANGED <<nivel, ahora, vueltas, hist>>
  /\ UNCHANGED <<casaVars, joyVars>>

SemPinMode == vueltas < MaxVueltas /\ PasoPinMode

\* digitalWrite(pin, value).
PasoDigitalWrite ==
  /\ SemInstr.op = "digitalWrite"
  /\ nivel' = [nivel EXCEPT ![SemInstr.pin] = SemInstr.val]
  /\ pcSem' = SemSiguiente
  /\ UNCHANGED <<modo, ahora, vueltas, hist>>
  /\ UNCHANGED <<casaVars, joyVars>>

SemDigitalWrite == vueltas < MaxVueltas /\ PasoDigitalWrite

\* delay(ms) blocks: nothing is written until it returns.
SemDelay ==
  /\ vueltas < MaxVueltas
  /\ SemInstr.op = "delay"
  /\ ahora' = ahora + SemInstr.ms
  /\ hist' = Append(hist, [luces |-> Luces, inicio |-> ahora, ms |-> SemInstr.ms,
                           fn |-> pcSem.fn])
  /\ vueltas' = IF SemFinDeVuelta THEN vueltas + 1 ELSE vueltas
  /\ pcSem' = SemSiguiente
  /\ UNCHANGED <<modo, nivel>>
  /\ UNCHANGED <<casaVars, joyVars>>

NextSem ==
  \/ SemPinMode
  \/ SemDigitalWrite
  \/ SemDelay

\* The sketch running without end. Time passes inside delay(ms) in steps of
\* Cuanto milliseconds; ahora is the time spent so far in the delay the
\* program is in, hist holds the last delay that returned, and vueltas counts
\* the iterations of loop() up to MaxVueltas, where it stays.
DelayPasa ==
  /\ SemInstr.op = "delay"
  /\ ahora + Cuanto < SemInstr.ms
  /\ ahora' = ahora + Cuanto
  /\ UNCHANGED <<modo, nivel, pcSem, vueltas, hist>>
  /\ UNCHANGED <<casaVars, joyVars>>

\* delay(ms) returns once ms milliseconds have passed.
DelayVuelve ==
  /\ SemInstr.op = "delay"
  /\ ahora + Cuanto >= SemInstr.ms
  /\ ahora' = 0
  /\ hist' = << [luces |-> Luces, inicio |-> 0, ms |-> SemInstr.ms,
                 fn |-> pcSem.fn] >>
  /\ vueltas' = IF SemFinDeVuelta /\ vueltas < MaxVueltas
                  THEN vueltas + 1 ELSE vueltas
  /\ pcSem' = SemSiguiente
  /\ UNCHANGED <<modo, nivel>>
  /\ UNCHANGED <<casaVars, joyVars>>

NextSemContinuo ==
  \/ PasoPinMode
  \/ PasoDigitalWrite
  \/ DelayPasa
  \/ DelayVuelve

\* The output latches after the digitalWrite statements of prog, in order,
\* starting from the latches n.
RECURSIVE Ejecutar(_, _)
Ejecutar(prog, n) ==
  IF prog = << >> THEN n
  ELSE Ejecutar(Tail(prog), [n EXCEPT ![Head(prog).pin] = Head(prog).val])

\* todosRojo() about to be called with the twelve pins already outputs, as
\* setup() calls it, and the lamps in any configuration.
InitTodosRojo ==
  /\ modo = [p \in Pines |-> "OUTPUT"]
  /\ nivel \in [Pines -> BOOLEAN]
  /\ pcSem = [fn |-> "todosRojo", i |-> 1]
  /\ ahora = 0
  /\ vueltas = 0
  /\ hist = << >>

\* One call of todosRojo(), from its first statement to its return; the lamps
\* lit when it is called are logged.
LlamaTodosRojo ==
  /\ pcSem.fn = "todosRojo"
  /\ vueltas < MaxLlamadas
  /\ nivel' = Ejecutar(todosRojo, nivel)
  /\ hist' = Append(hist, [luces |-> Luces, inicio |-> ahora, ms |-> 0,
                           fn |-> pcSem.fn])
  /\ vueltas' = vueltas + 1
  /\ UNCHANGED <<modo, pcSem, ahora>>
  /\ UNCHANGED <<casaVars, joyVars>>

NextTodosRojo == LlamaTodosRojo

(***************************************************************************)
(*                          SMART HOUSE                                    *)
(***************************************************************************)
OPEN_ANGLE == 95
CLOSE_ANGLE == 180
OPEN_ANGLE_W == 95
CLOSE_ANGLE_W == 0
OPEN_ANGLE_D == 100
CLOSE_ANGLE_D == 180

UMBRAL_LLUVIA_BAJO == 50
UMBRAL_LLUVIA_ALTO == 150

\* The rain sensor is a 10-bit analogRead: 0..1023.
RangoSensor == 0..1023

\* The samples the model feeds: the two ends of the range, the values around
\* each threshold, and 40, 100, 160.
Muestras ==
  {s \in RangoSensor :
     \/ s \in {0, 40, 100, 160, 1023}
     \/ (s >= UMBRAL_LLUVIA_BAJO - MargenMuestra /\ s <= UMBRAL_LLUVIA_BAJO + MargenMuestra)
     \/ (s >= UMBRAL_LLUVIA_ALTO - MargenMuestra /\ s <= UMBRAL_LLUVIA_ALTO + MargenMuestra)}

\* Faulty variant: the comparisons include the thresholds.
HistRegla_inclusive(valor, abierta) ==
  IF valor <= UMBRAL_LLUVIA_BAJO /\ abierta = TRUE THEN "cerrar"
  ELSE IF valor >= UMBRAL_LLUVIA_ALTO /\ abierta = FALSE THEN "abrir"
  ELSE "nada"

\* Faulty variant: the window reopens above the low threshold (no band).
HistRegla_sinBanda(valor, abierta) ==
  IF valor < UMBRAL_LLUVIA_BAJO /\ abierta = TRUE THEN "cerrar"
  ELSE IF valor > UMBRAL_LLUVIA_BAJO /\ abierta = FALSE THEN "abrir"
  ELSE "nada"

\* The branch loop() takes for the rain window: the if / else if of system 3.
HistRegla(valor, abierta) ==
  IF valor < UMBRAL_LLUVIA_BAJO /\ abierta = TRUE THEN "cerrar"
  ELSE IF valor > UMBRAL_LLUVIA_ALTO /\ abierta = FALSE THEN "abrir"
  ELSE "nada"

\* Globals as initialised; no servo written, nothing on the display.
InitCasa ==
  /\ pcCasa = "setup"
  /\ ventana_lluvia_abierta = TRUE
  /\ tercer_servo_abierto = FALSE
  /\ myServo = << >>
  /\ myServo_1 = << >>
  /\ myServo_2 = << >>
  /\ lcd = [fila \in 0..1 |-> ""]
  /\ buttonState = HIGH
  /\ buttonState_red = HIGH
  /\ valorHumedad = 1023
  /\ duracion = 0
  /\ marcas = [huboCierre |-> FALSE, huboApertura |-> FALSE,
               altoDesdeCierre |-> FALSE, bajoDesdeApertura |-> FALSE]
  /\ desdeToggle = -1

\* void setup(): welcome text, servos to their initial angles, delay(1500),
\* lcd.clear().
CasaSetup ==
  /\ pcCasa = "setup"
  /\ myServo' = <<OPEN_ANGLE>>
  /\ myServo_1' = <<OPEN_ANGLE_W>>
  /\ myServo_2' = <<CLOSE_ANGLE_D>>
  /\ lcd' = [fila \in 0..1 |-> ""]
  /\ duracion' = 1500
  /\ pcCasa' = "loop"
  /\ UNCHANGED <<ventana_lluvia_abierta, tercer_servo_abierto, buttonState,
                 buttonState_red, valorHumedad, marcas, desdeToggle>>
  /\ UNCHANGED <<semVars, joyVars>>

\* What the sample of this iteration adds to the record of crossings.
MarcasTras(regla, valor) ==
  [huboCierre |-> marcas.huboCierre \/ regla = "cerrar",
   huboApertura |-> marcas.huboApertura \/ regla = "abrir",
   altoDesdeCierre |->
     IF regla = "cerrar" THEN FALSE
     ELSE marcas.altoDesdeCierre \/ valor > UMBRAL_LLUVIA_ALTO,
   bajoDesdeApertura |->
     IF regla = "abrir" THEN FALSE
     ELSE marcas.bajoDesdeApertura \/ valor < UMBRAL_LLUVIA_BAJO]

\* Faulty variant: the two angles of the main window are exchanged.
AnguloPrincipal_invertido(b) == IF b = LOW THEN OPEN_ANGLE ELSE CLOSE_ANGLE

\* System 1: the angle written to myServo for the reading b of the green button.
AnguloPrincipal(b) == IF b = LOW THEN CLOSE_ANGLE ELSE OPEN_ANGLE

\* Faulty variant: the anti-bounce delay is delay(30).
Antirrebote_corto(r) == IF r = LOW THEN 30 ELSE 0

\* System 2: delay(300) at the end of the branch taken when the red button
\* reads LOW.
Antirrebote(r) == IF r = LOW THEN 300 ELSE 0

\* void loop(): one iteration with the three readings b, r, h.
CasaLoop(b, r, h) ==
  LET regla == HistRegla(h, ventana_lluvia_abierta) IN
  /\ pcCasa = "loop"
  /\ buttonState' = b
  /\ buttonState_red' = r
  /\ valorHumedad' = h
  \* system 1: main window follows the green button
  /\ myServo' = <<AnguloPrincipal(b)>>
  \* system 2: red button toggles the third servo, then delay(300)
  /\ IF r = LOW
       THEN /\ tercer_servo_abierto' = ~ tercer_servo_abierto
            /\ myServo_2' = IF tercer_servo_abierto = FALSE
                              THEN <<OPEN_ANGLE_D>> ELSE <<CLOSE_ANGLE_D>>
       ELSE UNCHANGED <<tercer_servo_abierto, myServo_2>>
  \* system 3: rain window with hysteresis
  /\ ventana_lluvia_abierta' =
       CASE regla = "cerrar" -> FALSE
         [] regla = "abrir" -> TRUE
         [] OTHER -> ventana_lluvia_abierta
  /\ myServo_1' =
       CASE regla = "cerrar" -> <<CLOSE_ANGLE_W>>
         [] regla = "abrir" -> <<OPEN_ANGLE_W>>
         [] OTHER -> myServo_1
  /\ lcd' = [fila \in 0..1 |->
              IF fila = 1
                THEN (IF b = LOW THEN "Manual: CERRADO " ELSE "Manual: ABIERTO  ")
                ELSE CASE regla = "cerrar" -> "Lluvia: CERRADO "
                       [] regla = "abrir" -> "Lluvia: ABIERTO "
                       [] OTHER -> lcd[0]]
  \* delay(300) when the red button was read LOW, and the final delay(5)
  /\ duracion' = Antirrebote(r) + 5
  /\ desdeToggle' =
       IF r = LOW THEN Antirrebote(r) + 5
       ELSE IF desdeToggle = -1 THEN -1
       ELSE IF desdeToggle + 5 > MaxDesde THEN MaxDesde
       ELSE desdeToggle + 5
  /\ marcas' = MarcasTras(regla, h)
  /\ UNCHANGED pcCasa
  /\ UNCHANGED <<semVars, joyVars>>

NextCasa ==
  \/ CasaSetup
  \/ \E b \in {HIGH, LOW}, r \in {HIGH, LOW}, h \in Muestras : CasaLoop(b, r, h)

(***************************************************************************)
(*                    TRANSPORTE PUBLICO (JOYSTICK)                        *)
(***************************************************************************)
\* The constants of the first variant of the sketch.
Variante1 ==
  [lo |-> 1500, hi |-> 2300, velMax |-> 6,
   xMin |-> 0, xMax |-> 380, yMin |-> 0, yMax |-> 380,
   x0 |-> 190, y0 |-> 190, periodo |-> 50]

\* The constants of the second variant of the sketch.
Variante2 ==
  [lo |-> 1800, hi |-> 2200, velMax |-> 4,
   xMin |-> 20, xMax |-> 347, yMin |-> 20, yMax |-> 389,
   x0 |-> 211, y0 |-> 205, periodo |-> 33]

Variantes == {1, 2}

Cfg(v) == IF v = 1 THEN Variante1 ELSE Variante2

\* The ESP32 ADC is 12 bits wide: analogRead gives 0..4095.
ADC_MAX == 4095

\* Faulty variant: the quotient is rounded down.
DivC_piso(a, b) == a \div b

\* C integer division: the quotient is truncated toward zero.
DivC(a, b) ==
  LET q == (IF a < 0 THEN -a ELSE a) \div (IF b < 0 THEN -b ELSE b)
  IN  IF (a < 0) = (b < 0) THEN q ELSE -q

\* Faulty variant: the start of the output range is not added.
map_sinOutMin(x, in_min, in_max, out_min, out_max) ==
  DivC((x - in_min) * (out_max - out_min), in_max - in_min)

\* Arduino's map(): (x - in_min) * (out_max - out_min) / (in_max - in_min) + out_min
map(x, in_min, in_max, out_min, out_max) ==
  DivC((x - in_min) * (out_max - out_min), in_max - in_min) + out_min

\* Faulty variant: the upper end of the dead zone counts as deflected.
Velocidad_zonaEstricta(v, val) ==
  IF val >= Cfg(v).hi THEN map(val, Cfg(v).hi, ADC_MAX, 1, Cfg(v).velMax)
  ELSE IF val < Cfg(v).lo THEN map(val, Cfg(v).lo, 0, -1, -Cfg(v).velMax)
  ELSE 0

\* Faulty variant: the low side maps to positive velocities.
Velocidad_signo(v, val) ==
  IF val > Cfg(v).hi THEN map(val, Cfg(v).hi, ADC_MAX, 1, Cfg(v).velMax)
  ELSE IF val < Cfg(v).lo THEN map(val, Cfg(v).lo, 0, 1, Cfg(v).velMax)
  ELSE 0

\* Faulty variant: the else-if branch of the low side is missing.
Velocidad_sinNegativa(v, val) ==
  IF val > Cfg(v).hi THEN map(val, Cfg(v).hi, ADC_MAX, 1, Cfg(v).velMax)
  ELSE 0

\* velX / velY of loop(): the if / else if on one axis' sample.
Velocidad(v, val) ==
  IF val > Cfg(v).hi THEN map(val, Cfg(v).hi, ADC_MAX, 1, Cfg(v).velMax)
  ELSE IF val < Cfg(v).lo THEN map(val, Cfg(v).lo, 0, -1, -Cfg(v).velMax)
  ELSE 0

\* char bufferEnvio[64]
TamBufferEnvio == 64

\* Faulty variant: the two arguments are printed in the other order.
Formato_ejesCambiados(x, y) ==
  "{\"x\":" \o ToString(y) \o ",\"y\":" \o ToString(x) \o "}"

\* sprintf(bufferEnvio, "{\"x\":%d,\"y\":%d}", posX, posY)
Formato(x, y) == "{\"x\":" \o ToString(x) \o ",\"y\":" \o ToString(y) \o "}"

\* The joystick samples the model feeds on each axis: both ends of the ADC
\* range, the centre and the two ends of the dead zone.
MuestrasJoy(v) == {0, Cfg(v).lo, 2000, Cfg(v).hi, ADC_MAX}

\* The time that passes from one loop() call to the next, in ms.
Pasos == {0, Paso}

\* The browsers that may open the WebSocket of port 81.
Clientes == 1..NumClientes

\* No client is connected.
SinClientes == [c \in Clientes |-> [conectado |-> FALSE, visto |-> << >>]]

Tope(t) == IF t > MaxEspera THEN MaxEspera ELSE t

\* Globals as initialised, seen when loop() is first called: setup() has
\* spent more than a second, so millis() - lastUpdate is beyond the cap.
JoyArranque(v) ==
  /\ variante = v
  /\ posX = Cfg(v).x0
  /\ posY = Cfg(v).y0
  /\ oldX = 0
  /\ oldY = 0
  /\ xVal = 2000
  /\ yVal = 2000
  /\ velX = 0
  /\ velY = 0
  /\ bufferEnvio = ""
  /\ espera = MaxEspera
  /\ ultimaVuelta = [wsLoop |-> 0, handleClient |-> 0, tick |-> FALSE,
                     broadcast |-> FALSE, intervalo |-> 0, bloqueo |-> 0]
  /\ ticks = 0
  /\ enviados = 0
  /\ rachas = 0
  /\ recibido = SinClientes

\* Coordinates at most Cerca away from an end of [min, max].
Borde(min, max) == {p \in min..max : p <= min + Cerca \/ p >= max - Cerca}

\* The sketch at rest at (x, y): the state loop() leaves after a tick with the
\* joystick centred once the position (x, y) has been broadcast.  Every
\* position of the rectangle is reached from (x0, y0) by ticks of velocity
\* +1 or -1 (samples hi + 1 and lo - 1) on each axis.  The messages and the
\* runs are counted from the run in progress and its message.
JoyEnReposo(v, x, y) ==
  /\ variante = v
  /\ posX = x
  /\ posY = y
  /\ oldX = x
  /\ oldY = y
  /\ xVal = 2000
  /\ yVal = 2000
  /\ velX = 0
  /\ velY = 0
  /\ bufferEnvio = Formato(x, y)
  /\ espera = 0
  /\ ultimaVuelta = [wsLoop |-> 1, handleClient |-> 1, tick |-> TRUE,
                     broadcast |-> FALSE, intervalo |-> MaxEspera,
                     bloqueo |-> 0]
  /\ ticks = 0
  /\ enviados = 1
  /\ rachas = 1
  /\ recibido = SinClientes

\* The model follows MaxTicks ticks from the boot state and from the states
\* at rest near the borders of the rectangle.
InitJoy ==
  \E v \in Variantes :
    \/ JoyArranque(v)
    \/ \E x \in Borde(Cfg(v).xMin, Cfg(v).xMax) \cup {Cfg(v).x0},
          y \in Borde(Cfg(v).yMin, Cfg(v).yMax) \cup {Cfg(v).y0} :
         JoyEnReposo(v, x, y)

\* Faulty variant: no upper limit.
constrain_sinMaximo(x, a, b) == IF x < a THEN a ELSE x

\* Arduino's constrain(x, a, b)
constrain(x, a, b) == IF x < a THEN a ELSE IF x > b THEN b ELSE x

\* Faulty variant: the vertical velocity is computed from the horizontal sample.
Calcular_ejeCruzado(v, px, py, x, y) ==
  LET vx == Velocidad(v, x)
      vy == Velocidad(v, x)
  IN  [velX |-> vx, velY |-> vy,
       posX |-> constrain(px + vx, Cfg(v).xMin, Cfg(v).xMax),
       posY |-> constrain(py + vy, Cfg(v).yMin, Cfg(v).yMax)]

\* The arithmetic of a tick: velX and velY from the samples, pos += vel,
\* pos = constrain(pos, min, max), on each axis.
Calcular(v, px, py, x, y) ==
  LET vx == Velocidad(v, x)
      vy == Velocidad(v, y)
  IN  [velX |-> vx, velY |-> vy,
       posX |-> constrain(px + vx, Cfg(v).xMin, Cfg(v).xMax),
       posY |-> constrain(py + vy, Cfg(v).yMin, Cfg(v).yMax)]

\* Faulty variant: only the horizontal coordinate is compared.
HayCambio_soloX(px, py, ox, oy) == px # ox

\* Faulty variant: the message is sent on every tick.
HayCambio_siempre(px, py, ox, oy) == TRUE

\* if (posX != oldX || posY != oldY)
HayCambio(px, py, ox, oy) == px # ox \/ py # oy

\* The tick gate of loop(): millis() - lastUpdate > period, dt ms after the
\* previous call returned.
TickDebido(dt) == Tope(espera + dt) > Cfg(variante).periodo

\* void loop(), tick due: service calls, joystick read, position update and
\* broadcast, to every connected client, if the position differs from the
\* last one sent.
LoopConTick(dt, x, y) ==
  LET n == Calcular(variante, posX, posY, x, y)
      envia == HayCambio(n.posX, n.posY, oldX, oldY)
  IN
  /\ TickDebido(dt)
  /\ espera' = 0
  /\ xVal' = x
  /\ yVal' = y
  /\ velX' = n.velX
  /\ velY' = n.velY
  /\ posX' = n.posX
  /\ posY' = n.posY
  /\ bufferEnvio' = IF envia THEN Formato(n.posX, n.posY) ELSE bufferEnvio
  /\ oldX' = IF envia THEN n.posX ELSE oldX
  /\ oldY' = IF envia THEN n.posY ELSE oldY
  /\ ultimaVuelta' = [wsLoop |-> 1, handleClient |-> 1, tick |-> TRUE,
                      broadcast |-> envia, intervalo |-> Tope(espera + dt),
                      bloqueo |-> 0]
  /\ ticks' = ticks + 1
  /\ enviados' = IF envia THEN enviados + 1 ELSE enviados
  /\ rachas' = IF rachas = 0 \/ n.posX # posX \/ n.posY # posY
                 THEN rachas + 1 ELSE rachas
  /\ recibido' =
       [c \in Clientes |->
          IF envia /\ recibido[c].conectado
            THEN [conectado |-> TRUE, visto |-> <<n.posX, n.posY>>]
            ELSE recibido[c]]
  /\ UNCHANGED variante
  /\ UNCHANGED <<semVars, casaVars>>

\* A loop() call with the tick due, among the MaxTicks that the model follows.
JoyTick(dt, x, y) == ticks < MaxTicks /\ LoopConTick(dt, x, y)

\* Faulty variant: the service calls are made only when the tick is due.
JoyEspera_sinServicio(dt) ==
  /\ ticks < MaxTicks
  /\ ~ TickDebido(dt)
  /\ espera' = Tope(espera + dt)
  /\ ultimaVuelta' = [wsLoop |-> 0, handleClient |-> 0, tick |-> FALSE,
                      broadcast |-> FALSE, intervalo |-> ultimaVuelta.intervalo,
                      bloqueo |-> 0]
  /\ UNCHANGED <<variante, posX, posY, oldX, oldY, xVal, yVal, velX, velY,
                 bufferEnvio, ticks, enviados, rachas, recibido>>
  /\ UNCHANGED <<semVars, casaVars>>

\* void loop(), tick not due: only the service calls.
LoopSinTick(dt) ==
  /\ ~ TickDebido(dt)
  /\ espera' = Tope(espera + dt)
  /\ ultimaVuelta' = [wsLoop |-> 1, handleClient |-> 1, tick |-> FALSE,
                      broadcast |-> FALSE, intervalo |-> ultimaVuelta.intervalo,
                      bloqueo |-> 0]
  /\ UNCHANGED <<variante, posX, posY, oldX, oldY, xVal, yVal, velX, velY,
                 bufferEnvio, ticks, enviados, rachas, recibido>>
  /\ UNCHANGED <<semVars, casaVars>>

\* A loop() call with the tick not due, while the model follows the sketch.
JoyEspera(dt) == ticks < MaxTicks /\ LoopSinTick(dt)

\* A browser opens the WebSocket: the server accepts it and sends it nothing
\* (no event handler is installed).
JoyConecta(c) ==
  /\ ticks < MaxTicks
  /\ ~ recibido[c].conectado
  /\ recibido' = [recibido EXCEPT ![c] = [conectado |-> TRUE, visto |-> << >>]]
  /\ UNCHANGED <<variante, posX, posY, oldX, oldY, xVal, yVal, velX, velY,
                 bufferEnvio, espera, ultimaVuelta, ticks, enviados, rachas>>
  /\ UNCHANGED <<semVars, casaVars>>

\* A browser closes the WebSocket; its page keeps what it last received.
JoyDesconecta(c) ==
  /\ ticks < MaxTicks
  /\ recibido[c].conectado
  /\ recibido' = [recibido EXCEPT ![c].conectado = FALSE]
  /\ UNCHANGED <<variante, posX, posY, oldX, oldY, xVal, yVal, velX, velY,
                 bufferEnvio, espera, ultimaVuelta, ticks, enviados, rachas>>
  /\ UNCHANGED <<semVars, casaVars>>

\* The sketch with browsers that come and go.
NextCli ==
  \/ \E dt \in Pasos, x \in MuestrasJoy(variante), y \in MuestrasJoy(variante) :
       JoyTick(dt, x, y)
  \/ \E dt \in Pasos : JoyEspera(dt)
  \/ \E c \in Clientes : JoyConecta(c)
  \/ \E c \in Clientes : JoyDesconecta(c)

\* The sketch with the joystick held fully deflected, right and down, from
\* boot, a loop() call every Paso ms.
NextRecorrido ==
  /\ ticks < MaxRecorrido
  /\ \/ LoopConTick(Paso, ADC_MAX, ADC_MAX)
     \/ LoopSinTick(Paso)

NextJoy ==
  \/ \E dt \in Pasos, x \in MuestrasJoy(variante), y \in MuestrasJoy(variante) :
       JoyTick(dt, x, y)
  \/ \E dt \in Pasos : JoyEspera(dt)

\* One tick from the boot state, with the samples x and y.
VelMuestra(x, y) == ticks = 0 /\ JoyTick(MaxEspera, x, y)

\* The velocity code on every sample analogRead can give (0..4095), on the
\* X axis, with a sample at most MaxSalto above it, or the sample mirrored in
\* the ADC range, on the Y axis.
NextVel ==
  /\ ticks = 0
  /\ \E x \in 0..ADC_MAX :
       \/ \E d \in 0..MaxSalto : x + d <= ADC_MAX /\ VelMuestra(x, x + d)
       \/ VelMuestra(x, ADC_MAX - x)

\* The velocity code on int values that lie outside the ADC range: above it
\* on the X axis, below it on the Y axis.
NextVelFuera ==
  /\ ticks = 0
  /\ \E x \in (ADC_MAX + 1)..(ADC_MAX + Fuera) : VelMuestra(x, ADC_MAX - x)

(***************************************************************************)
(*                          SPECIFICATIONS                                 *)
(***************************************************************************)
\* Each board runs one sketch; the variables of the other sketches keep
\* their initial values.
InitSoloSem == InitSem /\ InitCasa /\ JoyArranque(1)

InitSoloCasa == InitSem /\ InitCasa /\ JoyArranque(1)

InitSoloJoy == InitSem /\ InitCasa /\ InitJoy

\* The traffic lights.
SpecSem == InitSoloSem /\ [][NextSem]_vars

\* The Smart House.
SpecCasa == InitSoloCasa /\ [][NextCasa]_vars

\* The joystick sketch, in either variant.
SpecJoy == InitSoloJoy /\ [][NextJoy]_vars

InitSoloVel == InitSem /\ InitCasa /\ \E v \in Variantes : JoyArranque(v)

\* The velocity mapping of the joystick sketch over the whole ADC range.
SpecVel == InitSoloVel /\ [][NextVel]_vars

\* The joystick sketch from boot, with WebSocket clients.
SpecCli == InitSoloVel /\ [][NextCli]_vars

\* The joystick sketch from boot, with the joystick held fully deflected.
SpecRecorrido == InitSoloVel /\ [][NextRecorrido]_vars

\* The velocity mapping applied to values beyond the ADC range.
SpecVelFuera == InitSoloVel /\ [][NextVelFuera]_vars

\* The traffic lights running without end: the Arduino core keeps executing
\* the sketch, and every delay() returns.
SpecSemContinuo ==
  InitSoloSem /\ [][NextSemContinuo]_vars /\ WF_vars(NextSemContinuo)

\* todosRojo() on its own, called from every configuration of the lamps.
InitSoloTodosRojo == InitTodosRojo /\ InitCasa /\ JoyArranque(1)

SpecTodosRojo == InitSoloTodosRojo /\ [][NextTodosRojo]_vars

(***************************************************************************)
(*                    CLAIMS: SEMAFOROS                                    *)
(***************************************************************************)
TodoRojo == {Rojos[s] : s \in Semaforo}

\* The five lamp configurations of the dwell states.
CfgPatriaVerde == {"s1_verde", "s2_verde", "s3_rojo", "s4_rojo"}
CfgPatriaAmarillo == {"s1_amarillo", "s2_amarillo", "s3_rojo", "s4_rojo"}
CfgOteroVerde == {"s1_rojo", "s2_rojo", "s3_verde", "s4_verde"}
CfgOteroAmarillo == {"s1_rojo", "s2_rojo", "s3_amarillo", "s4_amarillo"}

Fase(L) ==
  CASE L = CfgPatriaVerde -> "A_GREEN"
    [] L = CfgPatriaAmarillo -> "A_YELLOW"
    [] L = CfgOteroVerde -> "B_GREEN"
    [] L = CfgOteroAmarillo -> "B_YELLOW"
    [] L = TodoRojo -> "ALL_RED"
    [] OTHER -> "OTRO"

\* The dwell states in the order of the specification's data model.
Orden == <<"A_GREEN", "A_YELLOW", "ALL_RED_1", "B_GREEN", "B_YELLOW", "ALL_RED_2">>

\* The name of the i-th dwell of the run (i = 1 is the boot dwell): an all-red
\* dwell is ALL_RED_1 after A_YELLOW and ALL_RED_2 after B_YELLOW.
NombreDwell(i) ==
  LET f == Fase(hist[i].luces)
      g == IF i > 1 THEN Fase(hist[i - 1].luces) ELSE "BOOT"
  IN  IF f # "ALL_RED" THEN f
      ELSE IF g = "A_YELLOW" THEN "ALL_RED_1"
      ELSE IF g = "B_YELLOW" THEN "ALL_RED_2"
      ELSE "ALL_RED"

\* C1: after every single statement of setup() and loop(), no green lamp of
\* Av. Patria is lit together with a green lamp of Av. Mariano Otero.
C1_SinVerdesEnConflicto ==
  ~ \E a \in Patria, b \in MarianoOtero :
      Encendido(Verdes[a]) /\ Encendido(Verdes[b])

\* Both avenues have had their green: Mariano Otero is green in the second
\* iteration of loop().
C1_Witness ==
  /\ vueltas = 1
  /\ Encendido("s3_verde") /\ Encendido("s4_verde")

\* C2: during setup() only red lamps are ever lit; the boot delay starts at
\* time 0 with exactly the four red lamps lit, and that configuration still
\* stands when loop() is about to perform its first write.
C2_ArranqueEnRojo ==
  /\ pcSem.fn = "setup" => Luces \subseteq TodoRojo
  /\ (pcSem.fn = "setup" /\ SemInstr.op = "delay") => Luces = TodoRojo
  /\ (pcSem = [fn |-> "loop", i |-> 1] /\ vueltas = 0) => Luces = TodoRojo
  /\ hist # << >> =>
       /\ hist[1].fn = "setup"
       /\ hist[1].luces = TodoRojo
       /\ hist[1].inicio = 0
  /\ \A i \in 1..Len(hist) :
       (\E s \in Semaforo : Verdes[s] \in hist[i].luces) => i > 1

\* The boot dwell is over and loop() has not written yet.
C2_Witness ==
  /\ pcSem = [fn |-> "loop", i |-> 1]
  /\ vueltas = 0
  /\ Len(hist) = 1
  /\ ahora = 2000

\* C3: the first dwell after the boot dwell shows Av. Patria green only and
\* Av. Mariano Otero red only.
C3_PrimerDwellPatriaVerde ==
  Len(hist) >= 2 =>
    /\ hist[2].fn = "loop"
    /\ hist[2].luces = CfgPatriaVerde
    /\ NombreDwell(2) = "A_GREEN"
    /\ \A s \in Patria : Verdes[s] \in hist[2].luces /\ Rojos[s] \notin hist[2].luces
    /\ \A s \in MarianoOtero : Rojos[s] \in hist[2].luces /\ Verdes[s] \notin hist[2].luces

\* The first dwell of loop() has been taken.
C3_Witness == Len(hist) = 2 /\ ahora = 2000 + 5000

\* C4: the dwells of loop() are A_GREEN, A_YELLOW, ALL_RED_1, B_GREEN,
\* B_YELLOW, ALL_RED_2, and again from A_GREEN, in this order.
C4_OrdenDeFases ==
  \A i \in 2..Len(hist) : NombreDwell(i) = Orden[((i - 2) % 6) + 1]

\* The cycle has wrapped: a second A_GREEN follows the first ALL_RED_2.
C4_Witness ==
  /\ Len(hist) >= 8
  /\ NombreDwell(7) = "ALL_RED_2"
  /\ NombreDwell(8) = "A_GREEN"

\* No light lit green at one dwell is lit red at the next one.
SinVerdeARojo ==
  \A i \in 1..(Len(hist) - 1) : \A s \in Semaforo :
    ~ (Verdes[s] \in hist[i].luces /\ Rojos[s] \in hist[i + 1].luces)

VerdeEn(A, i) == \E s \in A : Verdes[s] \in hist[i].luces

\* Dwell k shows avenue A yellow only: its yellows lit, its greens and reds not.
AmarilloEn(A, k) ==
  \A s \in A : /\ Amarillos[s] \in hist[k].luces
               /\ Verdes[s] \notin hist[k].luces
               /\ Rojos[s] \notin hist[k].luces

\* Between a green dwell of avenue A and a later green dwell of avenue B there
\* is a yellow dwell of A and, after it, an all-red dwell.
AmarilloYRojoTotalEntre(A, B) ==
  \A i \in 1..Len(hist) : \A j \in (i + 1)..Len(hist) :
    (VerdeEn(A, i) /\ VerdeEn(B, j)) =>
      \E k \in (i + 1)..(j - 1) : \E l \in (k + 1)..(j - 1) :
        AmarilloEn(A, k) /\ hist[l].luces = TodoRojo

\* No single write lights the red lamp of a light whose green lamp is lit.
EscrituraSinVerdeARojo ==
  \A s \in Semaforo : Encendido(Verdes[s]) => ~ Encendido(Rojos[s])'

\* C5: a light never goes from green directly to red, and between the green
\* of one avenue and the green of the other there is a yellow state of the
\* first avenue followed by an all-red state.
C5_TransicionSegura ==
  /\ [](SinVerdeARojo /\ AmarilloYRojoTotalEntre(Patria, MarianoOtero)
          /\ AmarilloYRojoTotalEntre(MarianoOtero, Patria))
  /\ [][EscrituraSinVerdeARojo]_vars

\* Green has passed from Patria to Mariano Otero and back to Patria.
C5_Witness ==
  /\ Len(hist) >= 8
  /\ VerdeEn(Patria, 2) /\ VerdeEn(MarianoOtero, 5) /\ VerdeEn(Patria, 8)

DuracionDe(nombre) ==
  CASE nombre \in {"A_GREEN", "B_GREEN"} -> 5000
    [] nombre \in {"A_YELLOW", "B_YELLOW"} -> 2000
    [] nombre \in {"ALL_RED_1", "ALL_RED_2"} -> 1000
    [] OTHER -> -1

\* C6: every green dwell lasts 5000 ms, every yellow dwell 2000 ms and every
\* all-red dwell of the cycle 1000 ms, measured both as the delay and as the
\* time to the start of the next dwell; A_GREEN starts again 16000 ms later.
C6_Duraciones ==
  /\ \A i \in 2..Len(hist) :
       /\ NombreDwell(i) \in {"A_GREEN", "B_GREEN"} => hist[i].ms = 5000
       /\ NombreDwell(i) \in {"A_YELLOW", "B_YELLOW"} => hist[i].ms = 2000
       /\ NombreDwell(i) \in {"ALL_RED_1", "ALL_RED_2"} => hist[i].ms = 1000
       /\ i < Len(hist) =>
            hist[i + 1].inicio - hist[i].inicio = DuracionDe(NombreDwell(i))
       /\ i = Len(hist) => ahora - hist[i].inicio = DuracionDe(NombreDwell(i))
  /\ \A i \in 2..Len(hist) :
       (NombreDwell(i) = "A_GREEN" /\ i + 6 <= Len(hist)) =>
          /\ NombreDwell(i + 6) = "A_GREEN"
          /\ hist[i + 6].inicio - hist[i].inicio = 16000

\* Two full cycles have been timed.
C6_Witness ==
  /\ Len(hist) = 14
  /\ NombreDwell(2) = "A_GREEN" /\ NombreDwell(8) = "A_GREEN"
  /\ NombreDwell(14) = "A_GREEN"

\* C31: a call of todosRojo(), whatever lamps are lit when it is made, returns
\* with the four red lamps lit and every yellow and green lamp dark, and a
\* call made right after another one changes no pin.
C31_TodosRojoIdempotente ==
  [][ vueltas' = vueltas + 1 =>
        /\ Luces' = TodoRojo
        /\ \A s \in Semaforo :
             /\ Encendido(Rojos[s])'
             /\ ~ Encendido(Amarillos[s])' /\ ~ Encendido(Verdes[s])'
        /\ vueltas >= 1 => (nivel' = nivel /\ modo' = modo) ]_vars

\* todosRojo() was called with all twelve lamps lit, and then a second time
\* from the all-red configuration it had left.
C31_Witness ==
  /\ pcSem.fn = "todosRojo"
  /\ vueltas = 2
  /\ hist[1].luces = Pines
  /\ hist[2].luces = TodoRojo
  /\ Luces = TodoRojo

\* The phase that is being shown: the lamps held by the delay() the program
\* is in; an all-red phase is ALL_RED_1 after A_YELLOW and ALL_RED_2 after
\* B_YELLOW.
FaseEnCurso ==
  IF SemInstr.op # "delay" THEN "NINGUNA"
  ELSE LET f == Fase(Luces)
           g == IF hist # << >> THEN Fase(hist[Len(hist)].luces) ELSE "BOOT"
       IN  IF f # "ALL_RED" THEN f
           ELSE IF g = "A_YELLOW" THEN "ALL_RED_1"
           ELSE IF g = "B_YELLOW" THEN "ALL_RED_2"
           ELSE "ALL_RED"

VerdePatria == Encendido("s1_verde") /\ Encendido("s2_verde")
VerdeOtero == Encendido("s3_verde") /\ Encendido("s4_verde")

\* C32: when the sketch keeps running and every delay() returns, each of the
\* six phases is shown infinitely often: each avenue gets its green again and
\* again, and neither avenue stays on red forever.
C32_OperacionContinua ==
  /\ []<>(FaseEnCurso = "A_GREEN")
  /\ []<>(FaseEnCurso = "A_YELLOW")
  /\ []<>(FaseEnCurso = "ALL_RED_1")
  /\ []<>(FaseEnCurso = "B_GREEN")
  /\ []<>(FaseEnCurso = "B_YELLOW")
  /\ []<>(FaseEnCurso = "ALL_RED_2")
  /\ []<>VerdePatria
  /\ []<>VerdeOtero
  /\ ~ <>[](Encendido("s1_rojo") \/ Encendido("s2_rojo"))
  /\ ~ <>[](Encendido("s3_rojo") \/ Encendido("s4_rojo"))

\* Av. Mariano Otero is being shown its green once more, part of the 5000 ms
\* gone, after MaxVueltas iterations of loop() have been completed.
C32_Witness ==
  /\ vueltas = MaxVueltas
  /\ FaseEnCurso = "B_GREEN"
  /\ ahora > 0
  /\ VerdeOtero /\ ~ VerdePatria

\* C28, as claimed: from the start of an A_GREEN dwell to the start of the
\* next A_GREEN dwell there are about 8 seconds: 8000 ms, give or take 1000.
C28_CicloDeOchoSegundos ==
  \A i \in 2..Len(hist) :
    (NombreDwell(i) = "A_GREEN" /\ i + 6 <= Len(hist)) =>
      /\ hist[i + 6].inicio - hist[i].inicio >= 8000 - 1000
      /\ hist[i + 6].inicio - hist[i].inicio <= 8000 + 1000

(***************************************************************************)
(*                    CLAIMS: SMART HOUSE                                  *)
(***************************************************************************)
\* A step that is one iteration of the Smart House loop().
CasaVuelta == pcCasa = "loop" /\ pcCasa' = "loop"

Cierra == ventana_lluvia_abierta /\ ~ ventana_lluvia_abierta'
Abre == ~ ventana_lluvia_abierta /\ ventana_lluvia_abierta'

\* C7: the rain window starts OPEN; an iteration with sample s closes it
\* exactly when it is open and s < 50, opens it exactly when it is closed and
\* s > 150, and leaves it as it is for 50 <= s <= 150.
C7_Histeresis ==
  /\ [](pcCasa = "setup" => ventana_lluvia_abierta)
  /\ [][CasaVuelta =>
          /\ Cierra <=> (ventana_lluvia_abierta /\ valorHumedad' < 50)
          /\ Abre <=> (~ ventana_lluvia_abierta /\ valorHumedad' > 150)
          /\ (valorHumedad' >= 50 /\ valorHumedad' <= 150) =>
               ventana_lluvia_abierta' = ventana_lluvia_abierta]_vars

\* The window has closed and has opened again on the sample 160.
C7_Witness ==
  /\ marcas.huboCierre /\ marcas.huboApertura
  /\ ventana_lluvia_abierta
  /\ valorHumedad = 160

\* C8: a closing after an earlier closing has seen a sample > 150 in between,
\* an opening after an earlier opening has seen a sample < 50 in between, and
\* a sample inside [50, 150] never changes the state.
C8_SinOscilacion ==
  [][CasaVuelta =>
       /\ Cierra => (marcas.huboCierre => marcas.altoDesdeCierre)
       /\ Abre => (marcas.huboApertura => marcas.bajoDesdeApertura)
       /\ Abre => valorHumedad' > 150
       /\ Cierra => valorHumedad' < 50
       /\ (valorHumedad' >= 50 /\ valorHumedad' <= 150) =>
            ventana_lluvia_abierta' = ventana_lluvia_abierta]_vars

\* The window is closed for the second time.
C8_Witness ==
  /\ marcas.huboCierre /\ marcas.huboApertura
  /\ ~ ventana_lluvia_abierta
  /\ ~ marcas.altoDesdeCierre

\* The step changes the state of the third servo.
Alterna == tercer_servo_abierto' # tercer_servo_abierto

\* C21, as claimed: the iteration in which a press of the red button begins
\* (LOW after HIGH) alternates the third servo once, and every other
\* iteration, those in which the button is still held included, keeps it.
C21_UnCambioPorPulsacion ==
  [][CasaVuelta =>
       Alterna <=> (buttonState_red' = LOW /\ buttonState_red = HIGH)]_vars

\* C22: a toggle of the third servo comes at least 300 ms after the toggle
\* before it, whatever was read in between.
C22_AntirreboteDe300ms ==
  [][(CasaVuelta /\ Alterna) =>
       /\ desdeToggle = -1 \/ desdeToggle >= 300
       /\ desdeToggle' >= 300
       /\ duracion' >= 300]_vars

\* The third servo has been toggled twice, and is closed again.
C22_Witness ==
  /\ pcCasa = "loop" /\ buttonState_red = LOW
  /\ tercer_servo_abierto = FALSE /\ myServo_2 = <<180>>
  /\ desdeToggle = 305

\* C23: after every iteration the main servo is at 180 if the green button
\* read LOW in that iteration and at 95 otherwise, whatever it was before.
C23_VentanaPrincipal ==
  [][CasaVuelta =>
       myServo' = (IF buttonState' = LOW THEN <<180>> ELSE <<95>>)]_vars

\* An iteration with the green button pressed has closed the main window.
C23_Witness ==
  /\ pcCasa = "loop" /\ duracion = 5
  /\ buttonState = LOW /\ myServo = <<180>>

\* C29, as claimed: every iteration of loop() takes 5 ms, so that consecutive
\* readings are 5 ms apart, the red button pressed or not.
C29_LecturasCada5ms ==
  [][CasaVuelta => duracion' = 5]_vars

\* C30, as claimed: after every iteration row 0 of the LCD shows the text of
\* the current state of the rain window and row 1 the text of the manual
\* window of that iteration.
C30_LcdAlDia ==
  [][CasaVuelta =>
       /\ lcd'[0] = (IF ventana_lluvia_abierta' THEN "Lluvia: ABIERTO "
                                                ELSE "Lluvia: CERRADO ")
       /\ lcd'[1] = (IF buttonState' = LOW THEN "Manual: CERRADO "
                                           ELSE "Manual: ABIERTO  ")]_vars

(***************************************************************************)
(*                    CLAIMS: TRANSPORTE PUBLICO                           *)
(***************************************************************************)
\* The rectangle of each variant.
Rect(v) ==
  IF v = 1 THEN [xMin |-> 0, xMax |-> 380, yMin |-> 0, yMax |-> 380]
           ELSE [xMin |-> 20, xMax |-> 347, yMin |-> 20, yMax |-> 389]

\* The dead zone of each variant.
ZonaMuerta(v) == IF v = 1 THEN 1500..2300 ELSE 1800..2200

Limitar(p, min, max) == IF p < min THEN min ELSE IF p > max THEN max ELSE p

\* A step that is a loop() call in which the tick was due.
JoyPasoTick == ticks' = ticks + 1

\* C9: in every state the position lies inside the rectangle of the variant:
\* [0, 380] x [0, 380] in the first, [20, 347] x [20, 389] in the second.
C9_PosicionEnRectangulo ==
  /\ variante = 1 => (0 <= posX /\ posX <= 380 /\ 0 <= posY /\ posY <= 380)
  /\ variante = 2 => (20 <= posX /\ posX <= 347 /\ 20 <= posY /\ posY <= 389)

\* A tick with the joystick fully deflected has pushed the position against
\* a corner of the rectangle, in the second variant.
C9_Witness ==
  /\ variante = 2 /\ ultimaVuelta.tick /\ ticks = 1
  /\ xVal = 4095 /\ yVal = 0
  /\ posX = 347 /\ posY = 20

\* C10: a tick sets each coordinate to its old value plus that axis'
\* velocity, limited to the rectangle; a sample in the dead zone gives that
\* axis velocity 0 and leaves its coordinate unchanged whatever the other
\* sample is, and a sample outside it moves the coordinate in its direction.
C10_EjesIndependientes ==
  [][JoyPasoTick =>
       /\ posX' = Limitar(posX + velX', Rect(variante).xMin, Rect(variante).xMax)
       /\ posY' = Limitar(posY + velY', Rect(variante).yMin, Rect(variante).yMax)
       /\ xVal' \in ZonaMuerta(variante) => (velX' = 0 /\ posX' = posX)
       /\ yVal' \in ZonaMuerta(variante) => (velY' = 0 /\ posY' = posY)
       /\ (xVal' \notin ZonaMuerta(variante)) => ((velX' > 0) <=> (xVal' > 2000))
       /\ (yVal' \notin ZonaMuerta(variante)) => ((velY' > 0) <=> (yVal' > 2000))
       /\ (xVal' \notin ZonaMuerta(variante)) => velX' # 0
       /\ (yVal' \notin ZonaMuerta(variante)) => velY' # 0]_vars

\* A tick with X fully deflected and Y centred has moved X and left Y alone.
C10_Witness ==
  /\ ultimaVuelta.tick /\ ticks = 1
  /\ xVal = 4095 /\ yVal = 2000
  /\ variante = 1 /\ posX = 196 /\ posY = 190

\* The step broadcasts one message.
Emite == enviados' = enviados + 1

\* C11: a tick broadcasts a message if and only if the position it ends with
\* differs from (oldX, oldY) in at least one coordinate; a tick that
\* broadcasts sets (oldX, oldY) to that position, a tick that does not leaves
\* (oldX, oldY) as it was; a loop() call without a tick broadcasts nothing.
C11_EmiteSiCambia ==
  [][/\ JoyPasoTick =>
          /\ Emite <=> (posX' # oldX \/ posY' # oldY)
          /\ Emite <=> ultimaVuelta'.broadcast
          /\ ~ Emite => enviados' = enviados
          /\ Emite => (oldX' = posX' /\ oldY' = posY')
          /\ ~ Emite => (oldX' = oldX /\ oldY' = oldY)
     /\ ~ JoyPasoTick =>
          (enviados' = enviados /\ oldX' = oldX /\ oldY' = oldY)]_vars

\* Of two ticks, one has moved the position in Y only and has broadcast it,
\* and the last one has kept the position and has broadcast nothing.
C11_Witness ==
  /\ ticks = 2 /\ enviados = 2
  /\ ultimaVuelta.tick /\ ~ ultimaVuelta.broadcast
  /\ variante = 1 /\ posX = 0 /\ posY = 6
  /\ oldX = 0 /\ oldY = 6

\* C12: the messages broadcast are as many as the maximal runs of consecutive
\* ticks that end with the same position; a tick that ends with the position
\* of the previous tick broadcasts nothing, and a tick that ends with another
\* position broadcasts exactly one message.
C12_UnMensajePorPosicion ==
  /\ [](enviados = rachas)
  /\ [][JoyPasoTick =>
          IF rachas > 0 /\ posX' = posX /\ posY' = posY
            THEN enviados' = enviados /\ ~ ultimaVuelta'.broadcast
            ELSE enviados' = enviados + 1 /\ ultimaVuelta'.broadcast]_vars

\* From the boot state: the first tick has sent the first message, the second
\* tick has moved the bus and has sent a second one.
C12_Witness ==
  /\ ticks = 2 /\ rachas = 2 /\ enviados = 2
  /\ variante = 2 /\ posX = 211 /\ posY = 209
  /\ bufferEnvio = "{\"x\":211,\"y\":209}"

\* C19: every loop() call makes exactly one call of webSocket.loop() and one
\* of server.handleClient(), with the tick due or not, and spends no time in
\* delay().
C19_ServicioEnCadaVuelta ==
  [][/\ ultimaVuelta'.wsLoop = 1
     /\ ultimaVuelta'.handleClient = 1
     /\ ultimaVuelta'.bloqueo = 0
     /\ ultimaVuelta'.tick <=> JoyPasoTick]_vars

\* After a tick, a loop() call that found the tick not due, some time after
\* the tick.
C19_Witness ==
  /\ ticks = 1 /\ ~ ultimaVuelta.tick
  /\ ultimaVuelta.wsLoop = 1 /\ ultimaVuelta.handleClient = 1
  /\ espera > 0 /\ espera <= 33

Digitos == <<"0", "1", "2", "3", "4", "5", "6", "7", "8", "9">>

RECURSIVE Decimal(_)
\* The decimal numeral of an integer, as %d prints it.
Decimal(n) ==
  IF n < 0 THEN "-" \o Decimal(-n)
  ELSE IF n < 10 THEN Digitos[n + 1]
  ELSE Decimal(n \div 10) \o Digitos[(n % 10) + 1]

\* C20: a tick that broadcasts leaves in bufferEnvio the text
\* {"x":<X>,"y":<Y>} where X and Y are the position the tick ends with, the
\* old position plus the velocity limited to the rectangle; in every state
\* the text and its terminator fit in the 64 bytes of bufferEnvio.
C20_FormatoDelMensaje ==
  /\ [](Len(bufferEnvio) + 1 <= 64)
  /\ [][(JoyPasoTick /\ Emite) =>
          /\ bufferEnvio' =
               "{\"x\":" \o Decimal(posX') \o ",\"y\":" \o Decimal(posY') \o "}"
          /\ posX' = Limitar(posX + velX', Rect(variante).xMin, Rect(variante).xMax)
          /\ posY' = Limitar(posY + velY', Rect(variante).yMin, Rect(variante).yMax)]_vars

\* A tick has been stopped by the right border and has sent a position with
\* a coordinate of three digits and one of one digit.
C20_Witness ==
  /\ ultimaVuelta.tick /\ ultimaVuelta.broadcast
  /\ variante = 1 /\ xVal = 4095 /\ yVal = 4095
  /\ posX = 380 /\ posY = 6
  /\ bufferEnvio = "{\"x\":380,\"y\":6}"

\* C24, as claimed: after every tick the last position received by every
\* connected client is the current position, also for a client that connected
\* while the position was not changing.
C24_ClientesAlDia ==
  [][JoyPasoTick =>
       \A c \in Clientes :
         recibido'[c].conectado => recibido'[c].visto = <<posX', posY'>>]_vars

\* C25, as claimed: a tick comes at least 50 ms after the tick before it, in
\* both variants.
C25_TicksCada50ms ==
  [][(JoyPasoTick /\ rachas > 0) => ultimaVuelta'.intervalo >= 50]_vars

\* C26, as claimed: a tick changes each coordinate by at most 5, and with the
\* joystick fully deflected and the border out of reach it changes it by
\* exactly 5.
C26_VelocidadMaxima5 ==
  [][JoyPasoTick =>
       /\ posX' - posX <= 5 /\ posX - posX' <= 5
       /\ posY' - posY <= 5 /\ posY - posY' <= 5
       /\ (xVal' = 4095 /\ posX + 6 <= Rect(variante).xMax) => posX' - posX = 5
       /\ (yVal' = 4095 /\ posY + 6 <= Rect(variante).yMax) => posY' - posY = 5]_vars

\* C27, as claimed: in every state posX and posY are within 0..380, in both
\* variants.
C27_Rango0a380 ==
  /\ 0 <= posX /\ posX <= 380
  /\ 0 <= posY /\ posY <= 380

(***************************************************************************)
(*                    CLAIMS: VELOCITY MAPPING                             *)
(***************************************************************************)
\* The dead zone and the largest speed of each variant.
ParamVel(v) ==
  IF v = 1 THEN [lo |-> 1500, hi |-> 2300, max |-> 6]
           ELSE [lo |-> 1800, hi |-> 2200, max |-> 4]

\* A tick has computed velX from xVal and velY from yVal.
VelCalculada == ticks = 1 /\ ultimaVuelta.tick

\* C13: a sample inside the dead zone, ends included, gives velocity 0:
\* 1500..2300 in the first variant, 1800..2200 in the second.
C13_ZonaMuertaDaCero ==
  VelCalculada =>
    /\ (xVal >= ParamVel(variante).lo /\ xVal <= ParamVel(variante).hi) => velX = 0
    /\ (yVal >= ParamVel(variante).lo /\ yVal <= ParamVel(variante).hi) => velY = 0

\* The upper end of the dead zone gives 0 and the next sample gives 1.
C13_Witness ==
  /\ VelCalculada /\ variante = 1
  /\ xVal = 2300 /\ velX = 0
  /\ yVal = 2301 /\ velY = 1

\* C14: for samples above the dead zone, up to 4095, the velocity is at least
\* 1, at most max (6 in the first variant, 4 in the second), and does not
\* decrease when the sample grows.
C14_DerechaMonotona ==
  VelCalculada =>
    /\ xVal > ParamVel(variante).hi =>
         (velX >= 1 /\ velX <= ParamVel(variante).max)
    /\ yVal > ParamVel(variante).hi =>
         (velY >= 1 /\ velY <= ParamVel(variante).max)
    /\ (xVal > ParamVel(variante).hi /\ yVal >= xVal) => velY >= velX

\* The two largest samples: speed 5 and then speed 6.
C14_Witness ==
  /\ VelCalculada /\ variante = 1
  /\ xVal = 4094 /\ velX = 5
  /\ yVal = 4095 /\ velY = 6

\* C15: for samples below the dead zone, from 0, the velocity is negative,
\* lies in -max..-1, and does not decrease when the sample grows.
C15_IzquierdaMonotona ==
  VelCalculada =>
    /\ xVal < ParamVel(variante).lo =>
         (velX <= -1 /\ velX >= -ParamVel(variante).max)
    /\ yVal < ParamVel(variante).lo =>
         (velY <= -1 /\ velY >= -ParamVel(variante).max)
    /\ (yVal < ParamVel(variante).lo /\ yVal >= xVal) => velY >= velX

\* The two smallest samples: velocity -4 and then -3.
C15_Witness ==
  /\ VelCalculada /\ variante = 2
  /\ xVal = 0 /\ velX = -4
  /\ yVal = 1 /\ velY = -3

\* C16: sample 4095 gives +max, sample 0 gives -max and sample 2000 gives 0:
\* 4, -4, 0 in the second variant and 6, -6, 0 in the first.
C16_Extremos ==
  VelCalculada =>
    /\ variante = 1 =>
         /\ xVal = 4095 => velX = 6
         /\ xVal = 0 => velX = -6
         /\ xVal = 2000 => velX = 0
         /\ yVal = 4095 => velY = 6
         /\ yVal = 0 => velY = -6
         /\ yVal = 2000 => velY = 0
    /\ variante = 2 =>
         /\ xVal = 4095 => velX = 4
         /\ xVal = 0 => velX = -4
         /\ xVal = 2000 => velX = 0
         /\ yVal = 4095 => velY = 4
         /\ yVal = 0 => velY = -4
         /\ yVal = 2000 => velY = 0

\* Both extremes in one tick of the second variant.
C16_Witness ==
  /\ VelCalculada /\ variante = 2
  /\ xVal = 0 /\ velX = -4
  /\ yVal = 4095 /\ velY = 4

Abs(n) == IF n < 0 THEN -n ELSE n

\* vel is the linear interpolation of val, from [hi, 4095] to [1, max] or
\* from [lo, 0] to [-1, -max], with the fraction dropped (rounded toward 0):
\* |vel| - 1 <= dist * (max - 1) / ancho < |vel|.
EsTruncada(v, val, vel) ==
  LET P == ParamVel(v)
      ancho == IF val > P.hi THEN 4095 - P.hi ELSE P.lo
      dist == IF val > P.hi THEN val - P.hi ELSE P.lo - val
  IN  (val > P.hi \/ val < P.lo) =>
        /\ (val > P.hi) <=> (vel > 0)
        /\ (Abs(vel) - 1) * ancho <= dist * (P.max - 1)
        /\ dist * (P.max - 1) < Abs(vel) * ancho

\* vel is the same interpolation rounded to the nearest integer:
\* | 1 + dist * (max - 1) / ancho - |vel| | <= 1/2.
EsLaMasCercana(v, val, vel) ==
  LET P == ParamVel(v)
      ancho == IF val > P.hi THEN 4095 - P.hi ELSE P.lo
      dist == IF val > P.hi THEN val - P.hi ELSE P.lo - val
  IN  (val > P.hi \/ val < P.lo) =>
        /\ (val > P.hi) <=> (vel > 0)
        /\ 2 * Abs(dist * (P.max - 1) - (Abs(vel) - 1) * ancho) <= ancho

\* C17, as amended: for every sample outside the dead zone the velocity is
\* the exact linear interpolation of the sample, from [hi, 4095] to [1, max]
\* or from [lo, 0] to [-1, -max], truncated toward zero.
C17_InterpolacionTruncada ==
  VelCalculada =>
    /\ EsTruncada(variante, xVal, velX)
    /\ EsTruncada(variante, yVal, velY)

\* Sample 3000 in the first variant: the interpolation is 2.95, the velocity
\* is 2; sample 3003 gives 2 as well.
C17_Witness ==
  /\ VelCalculada /\ variante = 1
  /\ xVal = 3000 /\ velX = 2
  /\ yVal = 3003 /\ velY = 2

\* C17, as claimed: for every sample outside the dead zone the velocity is
\* the exact linear interpolation rounded to the nearest integer.
C17_RedondeoAlMasCercano ==
  VelCalculada =>
    /\ EsLaMasCercana(variante, xVal, velX)
    /\ EsLaMasCercana(variante, yVal, velY)

====
